---- MODULE Spec2Model ----
(***************************************************************************)
(* Model of strategies/sma_cross_strategy.py (SmaCrossStrategy) and of the *)
(* part of strategies/base_strategy.py it uses, driven by an event engine  *)
(* (data feeds, broker) that the repository takes from backtrader.         *)
(*                                                                         *)
(* One global step of the engine is: some feeds deliver a new bar          *)
(* (Deliver), the broker matches the pending orders of those feeds         *)
(* (BrokerNext), the order notifications are handed to the strategy        *)
(* (NotifyOrder, NotifyTrade), and one of prenext / nextstart / next runs.    *)
(***************************************************************************)
EXTENDS Integers, Sequences, FiniteSets, TLC

(***************************************************************************)
(* Configuration.  The values are scaled down from the source's defaults   *)
(* (fast_ma=20, slow_ma=50, 7 tickers, start_cash=500000) so that the      *)
(* state space is finite and small; the code paths do not depend on them.  *)
(***************************************************************************)
Datas == 1 .. 2                 \* self.datas, in the order of `tickers`
fast_ma == 1
slow_ma == 2
alloc_percent_num == 9          \* alloc_percent_per_ticker = 0.90 = 9/10
alloc_percent_den == 10
min_size == 1
log_on_connect == TRUE
start_cash == 10

MaxBars == 6                    \* bars all feeds deliver in a run, in total
MaxBarsFeed == 5                \* the same, in the runs that feed every kind of bar
MaxDebt == 2                    \* the deepest debt a run starts with, in the runs without cash
Prices == {1, 2}                \* valid closes

(***************************************************************************)
(* Values read from a feed or an indicator line: a number, None, NaN, or   *)
(* a read that raises.                                                     *)
(***************************************************************************)
Num(n) == [k |-> "num", v |-> n]
None == [k |-> "none", v |-> 0]
NaN == [k |-> "nan", v |-> 0]
Err == [k |-> "err", v |-> 0]

ValidBars ==
    { [close |-> Num(p), fast_sma |-> Num(1), slow_sma |-> Num(1), crossover |-> Num(x)] :
        p \in Prices, x \in {-1, 0, 1} }
BadCloseBars ==
    { [close |-> c, fast_sma |-> Num(1), slow_sma |-> Num(1), crossover |-> Num(1)] :
        c \in {None, NaN, Err, Num(0), Num(-1)} }
BadIndBars ==
    { [close |-> Num(1), fast_sma |-> NaN, slow_sma |-> Num(1), crossover |-> Num(1)],
      [close |-> Num(1), fast_sma |-> Num(1), slow_sma |-> None, crossover |-> Num(-1)],
      [close |-> Num(1), fast_sma |-> Num(1), slow_sma |-> Num(1), crossover |-> NaN] }
\* The bars of the runs that exercise the readiness check: every kind of bad
\* value, and valid bars that cross up or down.
Bars ==
    {b \in ValidBars : b.close.v = 1 /\ b.crossover.v # 0} \cup BadCloseBars \cup BadIndBars
\* The bars of the trading runs: valid ones, and one whose crossover is NaN.
RunBars ==
    {b \in ValidBars : b.close.v = 1 \/ b.crossover.v # 0}
        \cup {b \in BadIndBars : b.crossover = NaN}
NoBar == [close |-> Err, fast_sma |-> NaN, slow_sma |-> NaN, crossover |-> NaN]

VARIABLES
    profile,        \* the kind of run: "run", "feed", "nocash", "late" or "timer"
    dlen,           \* len(d) of every feed
    bar,            \* d.close[0] and self.inds[d][...][0] of every feed
    fresh,          \* the feeds that delivered a bar in this global step
    cash,           \* broker.getcash()
    position,       \* getposition(d).size
    pending,        \* the broker's pending orders, per feed
    notifications,  \* order notifications not yet handed to notify_order
    d_with_len,     \* self.d_with_len
    live_logged,    \* self.live_logged
    capital,        \* self._capital_per_active_ticker
    calc_for_len,   \* self._capital_calc_for_len
    started,        \* nextstart has run
    crashed,        \* an exception left a handler of the strategy: the run is aborted
    date_raises,    \* reading [0] of a feed without bars raises (engine dependent)
    phase,          \* what the engine does next
    steplog,        \* the lines self.log printed in this global step
    hook,           \* the hook the engine called last
    intents,        \* the buy/close calls of the last hook, as observed
    evals,          \* the cache as seen by each evaluated feed in the last hook
    readyseen,      \* _data_ready(d) as returned in the last hook
    prevready,      \* _data_ready(d) as returned in the hook before
    last_intent,    \* the last intent issued per feed
    recomputed,     \* the last hook recomputed the allocation
    prev_calc_len,  \* _capital_calc_for_len when the last hook was entered
    equity,         \* SortinoRatio.equity: the period returns collected so far
    prev_val,       \* SortinoRatio.prev_val
    rets,           \* SortinoRatio.rets: what get_analysis returns
    values,         \* the portfolio values the analyzer was given, in order
    astatus,        \* "run", "raised" (next raised: the run is aborted) or "stopped"
    skipped         \* a [BUY SKIP] was logged for the feed since its last new bar

vars == <<profile, dlen, bar, fresh, cash, position, pending, notifications, d_with_len,
          live_logged, capital, calc_for_len, started, crashed, date_raises, phase, steplog,
          hook, intents, evals, readyseen, prevready, last_intent, recomputed,
          prev_calc_len, equity, prev_val, rets, values, astatus, skipped>>

NoneCapital == [none |-> TRUE, num |-> 0, den |-> 1]
NoneLen == 0

\* SortinoRatio.prev_val = None, and the analysis before stop has filled it.
NoValue == [none |-> TRUE, v |-> 0]
Unset == [k |-> "unset"]
NoRets == [sortino |-> Unset, annual_return |-> Unset, downside_deviation |-> Unset,
           n_periods |-> 0]

(***************************************************************************)
(* Helpers.                                                                *)
(***************************************************************************)
Max(a, b) == IF a >= b THEN a ELSE b
Abs(n) == IF n < 0 THEN -n ELSE n

\* Python's int(n / m) for m > 0: truncation towards zero.
IntDiv(n, m) == IF n >= 0 THEN n \div m ELSE -((-n) \div m)

\* self.min_periods[d] = max(int(fast_ma), int(slow_ma))
min_periods(d) == Max(fast_ma, slow_ma)

\* [d for d in self.datas if len(d)]
LiveDatas == {d \in Datas : dlen[d] > 0}

(***************************************************************************)
(* The strategy's handlers are written as functions of a record s holding  *)
(* the fields of self (and of the broker's order queue) that they change.  *)
(***************************************************************************)
StrategyState ==
    [d_with_len |-> d_with_len, live_logged |-> live_logged, capital |-> capital,
     calc_for_len |-> calc_for_len, pending |-> pending, last_intent |-> last_intent,
     steplog |-> steplog, crashed |-> FALSE, recomputed |-> FALSE,
     intents |-> <<>>, evals |-> <<>>, readyseen |-> [d \in Datas |-> FALSE]]

\* self.datas[0].datetime.date(0) in BaseStrategy.log: the first feed has
\* index 1 here.  Reading the date of a feed that has no bar yet raises or
\* not depending on the engine's buffers (date_raises).
LogRaises == date_raises /\ dlen[1] = 0

\* BaseStrategy.log: reads the date of the first feed, then prints.
Log(s, tag, d) ==
    IF LogRaises THEN [s EXCEPT !.crashed = TRUE]
    ELSE [s EXCEPT !.steplog = Append(@, [tag |-> tag, d |-> d])]

\* The feeds of self.datas whose first bar is later than every bar of the
\* run: one more ticker in the runs of profile "late", none otherwise.
LateDatas == IF profile = "late" THEN 1 ELSE 0

\* len(self.datas)
NDatas == Cardinality(Datas) + LateDatas

\* active_n = max(1, len(self.d_with_len) if len(self.d_with_len) else len(self.datas))
ActiveN(dwl) == Max(1, IF Cardinality(dwl) # 0 THEN Cardinality(dwl) ELSE NDatas)

\* Mutant of _ensure_capital_per_ticker: the cache is keyed by len(self.datas)
\* instead of active_n.
EnsureCapitalWrongLen(s) ==
    LET active_n == ActiveN(s.d_with_len) IN
    IF ~s.capital.none /\ s.calc_for_len = active_n
    THEN s
    ELSE Log([s EXCEPT !.capital = [none |-> FALSE, num |-> cash, den |-> active_n],
                       !.calc_for_len = Cardinality(Datas),
                       !.recomputed = TRUE],
             "CAPITAL", 0)

\* SmaCrossStrategy._ensure_capital_per_ticker
EnsureCapitalPerTicker(s) ==
    LET active_n == ActiveN(s.d_with_len) IN
    IF ~s.capital.none /\ s.calc_for_len = active_n
    THEN s
    ELSE Log([s EXCEPT !.capital = [none |-> FALSE, num |-> cash, den |-> active_n],
                       !.calc_for_len = active_n,
                       !.recomputed = TRUE],
             "CAPITAL", 0)

\* Mutant of _data_ready: a feed found ready at the step before is not checked
\* again.
DataReadyLatched(d) ==
    IF prevready[d] THEN TRUE
    ELSE IF dlen[d] < 1 THEN FALSE
    ELSE IF dlen[d] < min_periods(d) THEN FALSE
    ELSE IF bar[d].close.k = "err" THEN FALSE
    ELSE IF bar[d].close.k = "none" THEN FALSE
    ELSE IF bar[d].close.k = "num" /\ bar[d].close.v <= 0 THEN FALSE
    ELSE IF bar[d].close.k = "nan" THEN FALSE
    ELSE IF \E v \in {bar[d].fast_sma, bar[d].slow_sma, bar[d].crossover} :
                v.k \in {"none", "nan", "err"} THEN FALSE
    ELSE TRUE

\* Mutant of _data_ready: price < 0 instead of price <= 0.
DataReadyZeroPrice(d) ==
    IF dlen[d] < 1 THEN FALSE
    ELSE IF dlen[d] < min_periods(d) THEN FALSE
    ELSE IF bar[d].close.k = "err" THEN FALSE
    ELSE IF bar[d].close.k = "none" THEN FALSE
    ELSE IF bar[d].close.k = "num" /\ bar[d].close.v < 0 THEN FALSE
    ELSE IF bar[d].close.k = "nan" THEN FALSE
    ELSE IF \E v \in {bar[d].fast_sma, bar[d].slow_sma, bar[d].crossover} :
                v.k \in {"none", "nan", "err"} THEN FALSE
    ELSE TRUE

\* Mutant of _data_ready: len(d) != min_periods instead of len(d) < min_periods.
DataReadyExactLen(d) ==
    IF dlen[d] < 1 THEN FALSE
    ELSE IF dlen[d] # min_periods(d) THEN FALSE
    ELSE IF bar[d].close.k = "err" THEN FALSE
    ELSE IF bar[d].close.k = "none" THEN FALSE
    ELSE IF bar[d].close.k = "num" /\ bar[d].close.v <= 0 THEN FALSE
    ELSE IF bar[d].close.k = "nan" THEN FALSE
    ELSE IF \E v \in {bar[d].fast_sma, bar[d].slow_sma, bar[d].crossover} :
                v.k \in {"none", "nan", "err"} THEN FALSE
    ELSE TRUE

\* SmaCrossStrategy._data_ready
DataReady(d) ==
    IF dlen[d] < 1 THEN FALSE
    ELSE IF dlen[d] < min_periods(d) THEN FALSE
    ELSE IF bar[d].close.k = "err" THEN FALSE      \* except Exception: return False
    ELSE IF bar[d].close.k = "none" THEN FALSE
    ELSE IF bar[d].close.k = "num" /\ bar[d].close.v <= 0 THEN FALSE
    ELSE IF bar[d].close.k = "nan" THEN FALSE
    ELSE IF \E v \in {bar[d].fast_sma, bar[d].slow_sma, bar[d].crossover} :
                v.k \in {"none", "nan", "err"} THEN FALSE
    ELSE TRUE

\* What an intent looks like to an observer of self.buy / self.close.
Intent(s, d, kind, size) ==
    [d |-> d, kind |-> kind, size |-> size, pos |-> position[d],
     ready |-> DataReady(d), capital |-> s.capital, calc_for_len |-> s.calc_for_len,
     active_n |-> ActiveN(s.d_with_len), before |-> s.last_intent[d]]

\* self.buy(data=data, size=size): a market order handed to the broker.
Buy(s, d, size) ==
    [s EXCEPT !.pending[d] = Append(@, [isbuy |-> TRUE, size |-> size]),
              !.last_intent[d] = "buy",
              !.intents = Append(@, Intent(s, d, "buy", size))]

\* self.close(data=data): an order of the size of the position, against it.
Close(s, d) ==
    IF position[d] = 0 THEN s
    ELSE [s EXCEPT !.pending[d] = Append(@, [isbuy |-> position[d] < 0,
                                             size |-> Abs(position[d])]),
                   !.last_intent[d] = "close",
                   !.intents = Append(@, Intent(s, d, "close", Abs(position[d])))]

\* Mutant of _execute_buy_signal: the cache is invalidated after the order.
ExecuteBuySignalInvalidates(s, d, price) ==
    IF s.capital.none
    THEN Log(s, "ERROR BUY", d)
    ELSE LET size == IF price > 0
                     THEN IntDiv(s.capital.num * alloc_percent_num,
                                 s.capital.den * alloc_percent_den * price)
                     ELSE 0
         IN  IF size < min_size
             THEN Log(s, "BUY SKIP", d)
             ELSE LET s1 == Log(s, "BUY", d) IN
                  IF s1.crashed THEN s1
                  ELSE [Buy(s1, d, size) EXCEPT !.capital = NoneCapital]

\* Mutant of _execute_buy_signal: the value requested is taken off the cached
\* allocation, so that the next instrument of the step sees a smaller one.
ExecuteBuySignalDeducts(s, d, price) ==
    IF s.capital.none
    THEN Log(s, "ERROR BUY", d)
    ELSE LET size == IF price > 0
                     THEN IntDiv(s.capital.num * alloc_percent_num,
                                 s.capital.den * alloc_percent_den * price)
                     ELSE 0
         IN  IF size < min_size
             THEN Log(s, "BUY SKIP", d)
             ELSE LET s1 == Log(s, "BUY", d) IN
                  IF s1.crashed THEN s1
                  ELSE [Buy(s1, d, size) EXCEPT
                           !.capital.num = @ - size * price * s.capital.den]

\* Mutant of _execute_buy_signal: abs(size) is compared with min_size.
ExecuteBuySignalAbsSize(s, d, price) ==
    IF s.capital.none
    THEN Log(s, "ERROR BUY", d)
    ELSE LET size == IF price > 0
                     THEN IntDiv(s.capital.num * alloc_percent_num,
                                 s.capital.den * alloc_percent_den * price)
                     ELSE 0
         IN  IF Abs(size) < min_size
             THEN Log(s, "BUY SKIP", d)
             ELSE LET s1 == Log(s, "BUY", d) IN
                  IF s1.crashed THEN s1 ELSE Buy(s1, d, size)

\* Mutant of _execute_buy_signal: the size is computed from the whole cached
\* allocation, without alloc_percent_per_ticker.
ExecuteBuySignalFullAlloc(s, d, price) ==
    IF s.capital.none
    THEN Log(s, "ERROR BUY", d)
    ELSE LET size == IF price > 0
                     THEN IntDiv(s.capital.num, s.capital.den * price)
                     ELSE 0
         IN  IF size < min_size
             THEN Log(s, "BUY SKIP", d)
             ELSE LET s1 == Log(s, "BUY", d) IN
                  IF s1.crashed THEN s1 ELSE Buy(s1, d, size)

\* SmaCrossStrategy._execute_buy_signal
ExecuteBuySignal(s, d, price) ==
    IF s.capital.none
    THEN Log(s, "ERROR BUY", d)                \* float(None) raises, caught
    ELSE LET size == IF price > 0
                     THEN IntDiv(s.capital.num * alloc_percent_num,
                                 s.capital.den * alloc_percent_den * price)
                     ELSE 0
         IN  IF size < min_size
             THEN Log(s, "BUY SKIP", d)
             ELSE LET s1 == Log(s, "BUY", d) IN
                  IF s1.crashed THEN s1 ELSE Buy(s1, d, size)

\* Mutant of _execute_sell_signal: it sells the size a buy would have at the
\* current close instead of closing the position.
ExecuteSellSignalSized(s, d, price) ==
    LET s1 == Log(s, "SELL", d)
        size == IntDiv(s.capital.num * alloc_percent_num,
                       s.capital.den * alloc_percent_den * price)
    IN  IF s1.crashed THEN s1
        ELSE [s1 EXCEPT !.pending[d] = Append(@, [isbuy |-> FALSE, size |-> size]),
                        !.last_intent[d] = "close",
                        !.intents = Append(@, Intent(s1, d, "close", size))]

\* SmaCrossStrategy._execute_sell_signal
ExecuteSellSignal(s, d, price) ==
    LET s1 == Log(s, "SELL", d) IN
    IF s1.crashed THEN s1 ELSE Close(s1, d)

\* Mutant of the trading logic: pos.size >= 0 instead of pos.size == 0.
TradeBuysWhileLong(s, d) ==
    LET xo == bar[d].crossover.v
        price == bar[d].close.v
    IN  IF position[d] >= 0
        THEN IF xo > 0 THEN ExecuteBuySignal(s, d, price) ELSE s
        ELSE IF xo < 0 THEN ExecuteSellSignal(s, d, price) ELSE s

\* Mutant of the trading logic: a stored LONG state, set by the last buy, is
\* consulted instead of the broker's position alone.
TradeStoredState(s, d) ==
    LET xo == bar[d].crossover.v
        price == bar[d].close.v
    IN  IF position[d] = 0
        THEN IF xo > 0 /\ s.last_intent[d] # "buy"
             THEN ExecuteBuySignal(s, d, price) ELSE s
        ELSE IF xo < 0 THEN ExecuteSellSignal(s, d, price) ELSE s

\* Mutant of the trading logic: xo >= 0 instead of xo > 0.
TradeBuysOnNoCross(s, d) ==
    LET xo == bar[d].crossover.v
        price == bar[d].close.v
    IN  IF position[d] = 0
        THEN IF xo >= 0 THEN ExecuteBuySignal(s, d, price) ELSE s
        ELSE IF xo < 0 THEN ExecuteSellSignal(s, d, price) ELSE s

\* The trading logic of next for one feed (lines 214-231).
Trade(s, d) ==
    LET xo == bar[d].crossover.v
        price == bar[d].close.v
    IN  IF position[d] = 0
        THEN IF xo > 0 THEN ExecuteBuySignal(s, d, price) ELSE s
        ELSE IF xo < 0 THEN ExecuteSellSignal(s, d, price) ELSE s

\* Mutant of the "[ADD]" notice: live_logged is not consulted.
LogConnectEveryStep(s, d) ==
    IF log_on_connect
    THEN Log([s EXCEPT !.live_logged = @ \cup {d}], "ADD", d)
    ELSE s

\* The one-time "[ADD]" notice of next (lines 205-212).
LogConnect(s, d) ==
    IF log_on_connect /\ d \notin s.live_logged
    THEN Log([s EXCEPT !.live_logged = @ \cup {d}], "ADD", d)
    ELSE s

\* Mutant of the loop of next: only the feeds with a new bar are evaluated.
RECURSIVE LoopFreshOnly(_, _)
LoopFreshOnly(s, d) ==
    IF d \notin Datas \/ s.crashed THEN s
    ELSE LoopFreshOnly(IF d \in s.d_with_len /\ d \in fresh
                       THEN (IF ~DataReady(d) THEN s
                             ELSE Trade(LogConnect([s EXCEPT !.readyseen[d] = TRUE], d), d))
                       ELSE s,
                       d + 1)

\* Mutant of the loop body: the readiness check is missing.
EvalDataUnguarded(s, d) ==
    LET s0 == [s EXCEPT !.readyseen[d] = DataReady(d),
                        !.evals = Append(@, [d |-> d, capital |-> s.capital,
                                             calc_for_len |-> s.calc_for_len])]
        s1 == LogConnect(s0, d)
    IN  IF s1.crashed THEN s1 ELSE Trade(s1, d)

\* The body of the loop of next for one feed (lines 200-231).
EvalData(s, d) ==
    IF ~DataReady(d) THEN s
    ELSE LET s0 == [s EXCEPT !.readyseen[d] = TRUE,
                             !.evals = Append(@, [d |-> d, capital |-> s.capital,
                                                  calc_for_len |-> s.calc_for_len])]
             s1 == LogConnect(s0, d)
         IN  IF s1.crashed THEN s1 ELSE Trade(s1, d)

\* for d in list(self.d_with_len): the feeds of s.d_with_len from d on, in order.
RECURSIVE Loop(_, _)
Loop(s, d) ==
    IF d \notin Datas \/ s.crashed THEN s
    ELSE Loop(IF d \in s.d_with_len THEN EvalData(s, d) ELSE s, d + 1)

\* Mutant of next: the cache is invalidated at every call.
NextBodyAlwaysRecomputes(s) ==
    LET current_available == LiveDatas
        s1 == [s EXCEPT !.d_with_len = current_available, !.capital = NoneCapital]
        s2 == EnsureCapitalPerTicker(s1)
    IN  Loop(s2, 1)

\* SmaCrossStrategy.next
NextBody(s) ==
    LET current_available == LiveDatas
        s1 == IF current_available # s.d_with_len
              THEN [s EXCEPT !.d_with_len = current_available, !.capital = NoneCapital]
              ELSE s
        s2 == EnsureCapitalPerTicker(s1)
    IN  Loop(s2, 1)

\* SmaCrossStrategy.prenext
PreNextBody(s) ==
    NextBody([s EXCEPT !.d_with_len = LiveDatas, !.capital = NoneCapital])

\* SmaCrossStrategy.nextstart
NextStartBody(s) ==
    NextBody([s EXCEPT !.d_with_len = Datas, !.capital = NoneCapital])

(***************************************************************************)
(* The engine: feeds and broker.                                           *)
(***************************************************************************)
\* cerebro.broker.setcash(...): start_cash, or nothing or less in the runs
\* without cash.
CashOf(pr) == IF pr = "nocash" THEN -MaxDebt .. 0 ELSE {start_cash}

InitAny ==
    /\ dlen = [d \in Datas |-> 0]
    /\ bar = [d \in Datas |-> NoBar]
    /\ fresh = {}
    /\ skipped = [d \in Datas |-> FALSE]
    /\ cash \in CashOf(profile)
    /\ position = [d \in Datas |-> 0]
    /\ pending = [d \in Datas |-> <<>>]
    /\ notifications = <<>>
    /\ d_with_len = {}
    /\ live_logged = {}
    /\ capital = NoneCapital
    /\ calc_for_len = NoneLen
    /\ started = FALSE
    /\ crashed = FALSE
    /\ date_raises \in BOOLEAN
    /\ phase = "feed"
    /\ steplog = <<>>
    /\ hook = "none"
    /\ intents = <<>>
    /\ evals = <<>>
    /\ readyseen = [d \in Datas |-> FALSE]
    /\ prevready = [d \in Datas |-> FALSE]
    /\ last_intent = [d \in Datas |-> "none"]
    /\ recomputed = FALSE
    /\ prev_calc_len = NoneLen
    /\ equity = <<>>
    /\ prev_val = NoValue
    /\ rets = NoRets
    /\ values = <<>>
    /\ astatus = "run"

Init == profile = "run" /\ InitAny
InitFeed == profile = "feed" /\ InitAny
InitNoCash == profile = "nocash" /\ InitAny
InitLate == profile = "late" /\ InitAny
InitTimer == profile = "timer" /\ InitAny

BarsOf(pr) == IF pr = "feed" THEN Bars ELSE RunBars
MaxBarsOf(pr) == IF pr \in {"feed", "timer"} THEN MaxBarsFeed ELSE MaxBars

\* The bars delivered so far, over all feeds.
RECURSIVE TotalBars(_)
TotalBars(d) == IF d \notin Datas THEN 0 ELSE dlen[d] + TotalBars(d + 1)

\* The opening price of the current bar of d, at which the broker fills: the
\* bars of the model open where they close (at 1 when the close is no price).
OpenOf(d) == IF bar[d].close.k = "num" /\ bar[d].close.v > 0 THEN bar[d].close.v ELSE 1

strategy_vars == <<d_with_len, live_logged, capital, calc_for_len, started, hook,
                   intents, evals, readyseen, prevready, last_intent, recomputed,
                   prev_calc_len>>
analyzer_vars == <<equity, prev_val, rets, values, astatus>>

\* A global step begins: a non-empty set of feeds delivers one new bar each;
\* the other feeds keep their length and their last values.
Deliver ==
    /\ phase = "feed" /\ ~crashed
    /\ \E S \in (SUBSET Datas) \ {{}} :
         \E b \in [S -> BarsOf(profile)] :
            /\ TotalBars(1) + Cardinality(S) <= MaxBarsOf(profile)
            /\ dlen' = [d \in Datas |-> IF d \in S THEN dlen[d] + 1 ELSE dlen[d]]
            /\ bar' = [d \in Datas |-> IF d \in S THEN b[d] ELSE bar[d]]
            /\ fresh' = S
            /\ skipped' = [d \in Datas |-> IF d \in S THEN FALSE ELSE skipped[d]]
    /\ steplog' = <<>>
    /\ phase' = "broker"
    /\ UNCHANGED <<profile, cash, position, pending, notifications, crashed, date_raises>>
    /\ UNCHANGED strategy_vars
    /\ UNCHANGED analyzer_vars

\* The broker executes one market order of feed d at price fp; a buy the cash
\* does not cover is rejected (Margin).  b holds cash, position, notifications.
ExecOrder(b, d, o, fp) ==
    LET newpos == IF o.isbuy THEN b.position[d] + o.size ELSE b.position[d] - o.size
        done == [type |-> "order", d |-> d, status |-> "Completed", isbuy |-> o.isbuy,
                 isclosed |-> FALSE]
        trade == [type |-> "trade", d |-> d, status |-> "Trade", isbuy |-> o.isbuy,
                  isclosed |-> (newpos = 0)]
    IN  IF o.isbuy /\ o.size * fp > b.cash
        THEN [b EXCEPT !.notifications =
                  Append(@, [done EXCEPT !.status = "Margin"])]
        ELSE [cash |-> IF o.isbuy THEN b.cash - o.size * fp ELSE b.cash + o.size * fp,
              position |-> [b.position EXCEPT ![d] = newpos],
              notifications |->
                  IF (b.position[d] = 0) # (newpos = 0)
                  THEN b.notifications \o <<done, trade>>
                  ELSE Append(b.notifications, done)]

RECURSIVE ExecOrders(_, _, _)
ExecOrders(b, d, orders) ==
    IF orders = <<>> THEN b
    ELSE ExecOrders(ExecOrder(b, d, Head(orders), OpenOf(d)), d, Tail(orders))

\* The pending orders of the feeds from d on that delivered a bar, in order.
RECURSIVE ExecDatas(_, _)
ExecDatas(b, d) ==
    IF d \notin Datas THEN b
    ELSE ExecDatas(IF d \in fresh THEN ExecOrders(b, d, pending[d]) ELSE b, d + 1)

\* broker.next(): a market order is matched at the first bar its feed delivers
\* after the order was created, at that bar's opening price.
BrokerNext ==
    /\ phase = "broker"
    /\ LET b == ExecDatas([cash |-> cash, position |-> position,
                            notifications |-> <<>>], 1)
       IN  /\ cash' = b.cash
           /\ position' = b.position
           /\ notifications' = b.notifications
    /\ pending' = [d \in Datas |-> IF d \in fresh THEN <<>> ELSE pending[d]]
    /\ phase' = "notify"
    /\ UNCHANGED <<profile, dlen, bar, fresh, crashed, date_raises, steplog, skipped>>
    /\ UNCHANGED strategy_vars
    /\ UNCHANGED analyzer_vars

(***************************************************************************)
(* Notifications.                                                          *)
(***************************************************************************)
\* BaseStrategy.log called from a notification handler.
NotifyLog(lg, tag, d) == Append(lg, [tag |-> tag, d |-> d])

\* BaseStrategy.notify_order followed by SmaCrossStrategy.notify_order: the
\* lines they print for order n, appended to lg.
NotifyOrderLines(lg, n) ==
    IF n.status = "Completed"
    THEN NotifyLog(NotifyLog(lg, IF n.isbuy THEN "BUY EXECUTED" ELSE "SELL EXECUTED", n.d),
                   IF n.isbuy THEN "ORDER DONE BUY" ELSE "ORDER DONE SELL", n.d)
    ELSE NotifyLog(lg, "Order Canceled/Margin/Rejected", n.d)

\* Mutant of notify_order: a rejected order invalidates the allocation cache.
NotifyOrderInvalidates ==
    /\ phase = "notify" /\ ~crashed
    /\ notifications # <<>> /\ Head(notifications).type = "order"
    /\ IF LogRaises
       THEN crashed' = TRUE /\ steplog' = steplog
       ELSE crashed' = FALSE /\ steplog' = NotifyOrderLines(steplog, Head(notifications))
    /\ notifications' = Tail(notifications)
    /\ capital' = IF Head(notifications).status = "Margin" THEN NoneCapital ELSE capital
    /\ UNCHANGED <<profile, dlen, bar, fresh, cash, position, pending, date_raises, phase,
                   skipped>>
    /\ UNCHANGED <<d_with_len, live_logged, calc_for_len, started, hook, intents, evals,
                   readyseen, prevready, last_intent, recomputed, prev_calc_len>>
    /\ UNCHANGED analyzer_vars

\* SmaCrossStrategy.notify_order
NotifyOrder ==
    /\ phase = "notify" /\ ~crashed
    /\ notifications # <<>> /\ Head(notifications).type = "order"
    /\ IF LogRaises
       THEN crashed' = TRUE /\ steplog' = steplog
       ELSE crashed' = FALSE /\ steplog' = NotifyOrderLines(steplog, Head(notifications))
    /\ notifications' = Tail(notifications)
    /\ UNCHANGED <<profile, dlen, bar, fresh, cash, position, pending, date_raises, phase,
                   skipped>>
    /\ UNCHANGED strategy_vars
    /\ UNCHANGED analyzer_vars

\* BaseStrategy.notify_trade followed by SmaCrossStrategy.notify_trade
NotifyTrade ==
    /\ phase = "notify" /\ ~crashed
    /\ notifications # <<>> /\ Head(notifications).type = "trade"
    /\ IF ~Head(notifications).isclosed
       THEN crashed' = FALSE /\ steplog' = steplog
       ELSE IF LogRaises
       THEN crashed' = TRUE /\ steplog' = steplog
       ELSE /\ crashed' = FALSE
            /\ steplog' = NotifyLog(NotifyLog(steplog, "OPERATION PROFIT", Head(notifications).d),
                                    "TRADE CLOSED", Head(notifications).d)
    /\ notifications' = Tail(notifications)
    /\ UNCHANGED <<profile, dlen, bar, fresh, cash, position, pending, date_raises, phase,
                   skipped>>
    /\ UNCHANGED strategy_vars
    /\ UNCHANGED analyzer_vars

\* rebal_weekday is not None: __init__ has added a timer (the runs of profile
\* "timer"; the default is None).
TimerAdded == profile = "timer"

\* SmaCrossStrategy.notify_timer: the engine checks the timers of a step after
\* the broker and before it hands the step's notifications to the strategy.
NotifyTimer ==
    /\ TimerAdded
    /\ phase = "notify" /\ ~crashed /\ steplog = <<>>
    /\ IF LogRaises
       THEN crashed' = TRUE /\ steplog' = steplog     \* the except clause logs again
       ELSE crashed' = FALSE /\ steplog' = NotifyLog(steplog, "TIMER", 0)
    /\ UNCHANGED <<profile, dlen, bar, fresh, cash, position, pending, notifications,
                   date_raises, phase, skipped>>
    /\ UNCHANGED strategy_vars
    /\ UNCHANGED analyzer_vars

(***************************************************************************)
(* The strategy's hooks, as the engine calls them.                         *)
(***************************************************************************)
\* What a hook leaves behind: s is the record its body returns.
Commit(s, name) ==
    /\ d_with_len' = s.d_with_len
    /\ live_logged' = s.live_logged
    /\ capital' = s.capital
    /\ calc_for_len' = s.calc_for_len
    /\ pending' = s.pending
    /\ last_intent' = s.last_intent
    /\ steplog' = s.steplog
    /\ crashed' = s.crashed
    /\ recomputed' = s.recomputed
    /\ intents' = s.intents
    /\ evals' = s.evals
    /\ readyseen' = s.readyseen
    /\ prevready' = readyseen
    /\ skipped' = [d \in Datas |->
                      skipped[d] \/ \E i \in 1 .. Len(s.steplog) :
                                        s.steplog[i] = [tag |-> "BUY SKIP", d |-> d]]
    /\ prev_calc_len' = calc_for_len
    /\ hook' = name
    /\ phase' = "feed"
    /\ UNCHANGED <<profile, dlen, bar, fresh, cash, position, notifications, date_raises>>
    /\ UNCHANGED analyzer_vars

\* The engine calls a hook once the notifications of the step are delivered.
HookDue == phase = "notify" /\ ~crashed /\ notifications = <<>>

\* Some feed has fewer bars than its indicators need.
Warming == LateDatas > 0 \/ \E d \in Datas : dlen[d] < min_periods(d)

PreNext ==
    /\ HookDue /\ Warming
    /\ Commit(PreNextBody(StrategyState), "prenext")
    /\ started' = started

NextStart ==
    /\ HookDue /\ ~Warming /\ ~started
    /\ Commit(NextStartBody(StrategyState), "nextstart")
    /\ started' = TRUE

Next ==
    /\ HookDue /\ ~Warming /\ started
    /\ Commit(NextBody(StrategyState), "next")
    /\ started' = started

Step ==
    \/ Deliver
    \/ BrokerNext
    \/ NotifyOrder
    \/ NotifyTrade
    \/ PreNext
    \/ NextStart
    \/ Next

Spec == Init /\ [][Step]_vars
SpecFeed == InitFeed /\ [][Step]_vars

\* A run whose broker has no cash: no order is ever accepted by the strategy's
\* sizing or filled, so no notification is delivered.
StepNoCash ==
    \/ Deliver
    \/ BrokerNext
    \/ PreNext
    \/ NextStart
    \/ Next

SpecNoCash == InitNoCash /\ [][StepNoCash]_vars

\* A run with a ticker that starts trading after the run's bars: the
\* indicators of that feed are never ready, so the engine calls prenext at
\* every step.
StepLate ==
    \/ Deliver
    \/ BrokerNext
    \/ NotifyOrder
    \/ NotifyTrade
    \/ PreNext

SpecLate == InitLate /\ [][StepLate]_vars

\* A run with rebal_weekday set.
StepTimer ==
    \/ Deliver
    \/ BrokerNext
    \/ NotifyTimer
    \/ NotifyOrder
    \/ NotifyTrade
    \/ PreNext
    \/ NextStart
    \/ Next

SpecTimer == InitTimer /\ [][StepTimer]_vars

(***************************************************************************)
(* The Sortino analyzer (utils/sortino_analyzer.py).  Python's floats are  *)
(* modelled by exact rationals; a power with a fractional exponent and a   *)
(* square root are kept as terms, with their sign decided exactly.         *)
(***************************************************************************)
riskfreerate == 0               \* riskfreerate=0.0
periods_per_year == 252

MaxSamples == 4                 \* portfolio values an analyzer is given in a run
MaxValue == 2                   \* the largest portfolio value
Values == {-1} \cup (0 .. MaxValue)     \* broker.getvalue()

RECURSIVE Gcd(_, _)
Gcd(a, b) == IF b = 0 THEN a ELSE Gcd(b, a % b)

\* The rational n/d, d # 0, in lowest terms with a positive denominator.
Rat(n, d) ==
    LET g == Gcd(Abs(n), Abs(d))
        sg == IF d < 0 THEN -1 ELSE 1
    IN  [n |-> sg * (n \div g), d |-> sg * (d \div g)]
RMul(a, b) == Rat(a.n * b.n, a.d * b.d)
RAdd(a, b) == Rat(a.n * b.d + b.n * a.d, a.d * b.d)
RSub(a, b) == Rat(a.n * b.d - b.n * a.d, a.d * b.d)
RLess(a, b) == a.n * b.d < b.n * a.d
RMin(a, b) == IF RLess(b, a) THEN b ELSE a
Zero == Rat(0, 1)
One == Rat(1, 1)

\* The terms a result can be: None, +infinity, a rational, b ** (en/ed) - 1.0
\* with b > 0, sqrt(a) * sqrt(b), x - y and x / y.
Inf == [k |-> "inf"]
Real(q) == [k |-> "rat", q |-> q]
PowMinusOne(b, en, ed) == [k |-> "powm1", base |-> b, en |-> en, ed |-> ed]
SqrtTimesSqrt(a, b) == [k |-> "sqrtmul", a |-> a, b |-> b]
Minus(x, y) == [k |-> "sub", x |-> x, y |-> y]
Quotient(x, y) == [k |-> "div", x |-> x, y |-> y]

\* x > 0 for a term x that is a rational, a power minus one or a product of
\* square roots.
Positive(x) ==
    IF x.k = "rat" THEN x.q.n > 0
    ELSE IF x.k = "powm1" THEN RLess(One, x.base)
    ELSE x.a.n > 0 /\ x.b > 0

\* x - y > 0 for a term x and a rational y >= 0: for a power b ** e - 1.0 with
\* e > 0 and y = 0 this is b > 1.
Exceeds(x, y) ==
    IF x.k = "rat" THEN RLess(y, x.q)
    ELSE y = Zero /\ RLess(One, x.base)

\* The fields of the analyzer that next changes.
AnalyzerState == [equity |-> equity, prev_val |-> prev_val, raised |-> FALSE]

\* Mutant of SortinoRatio.next: the first sample records a return of 0.
AnalyzerNextFirstReturn(a, cur) ==
    IF a.prev_val.none
    THEN [a EXCEPT !.prev_val = [none |-> FALSE, v |-> cur], !.equity = Append(@, Zero)]
    ELSE IF a.prev_val.v = 0
    THEN [a EXCEPT !.raised = TRUE]
    ELSE [a EXCEPT !.equity = Append(@, RSub(Rat(cur, a.prev_val.v), One)),
                   !.prev_val = [none |-> FALSE, v |-> cur]]

\* Mutant of SortinoRatio.next: prev_val keeps the first sample.
AnalyzerNextKeepsFirst(a, cur) ==
    IF a.prev_val.none
    THEN [a EXCEPT !.prev_val = [none |-> FALSE, v |-> cur]]
    ELSE IF a.prev_val.v = 0
    THEN [a EXCEPT !.raised = TRUE]
    ELSE [a EXCEPT !.equity = Append(@, RSub(Rat(cur, a.prev_val.v), One))]

\* SortinoRatio.next with cur = self.strategy.broker.getvalue()
AnalyzerNextBody(a, cur) ==
    IF a.prev_val.none
    THEN [a EXCEPT !.prev_val = [none |-> FALSE, v |-> cur]]
    ELSE IF a.prev_val.v = 0
    THEN [a EXCEPT !.raised = TRUE]            \* cur / 0.0: ZeroDivisionError
    ELSE [a EXCEPT !.equity = Append(@, RSub(Rat(cur, a.prev_val.v), One)),
                   !.prev_val = [none |-> FALSE, v |-> cur]]

\* (1.0 + returns).prod()
RECURSIVE TotalGrowth(_)
TotalGrowth(returns) ==
    IF returns = <<>> THEN One
    ELSE RMul(RAdd(One, Head(returns)), TotalGrowth(Tail(returns)))

\* Mutant of the annual return: the power is taken whatever the growth is.
AnnualReturnAlwaysPower(returns) ==
    PowMinusOne(TotalGrowth(returns), periods_per_year, Len(returns))

\* annual_return of stop (lines 71-77)
AnnualReturn(returns) ==
    LET n == Len(returns)
        total_growth == TotalGrowth(returns)
    IN  IF ~RLess(Zero, total_growth)              \* total_growth <= 0
        THEN Real(Rat(-1, 1))
        ELSE PowMinusOne(total_growth, periods_per_year, n)

\* (1.0 + self.p.mar) ** (1.0 / self.p.periods_per_year) - 1.0 with mar=0.0
mar_period == Zero

\* sum of np.minimum(0.0, returns - mar_period) ** 2
RECURSIVE SumSqDownside(_)
SumSqDownside(returns) ==
    IF returns = <<>> THEN Zero
    ELSE LET downside == RMin(Zero, RSub(Head(returns), mar_period))
         IN  RAdd(RMul(downside, downside), SumSqDownside(Tail(returns)))

\* Mutant of mean_sq: the mean is taken over the periods below the MAR only.
MeanSqOverDownsidePeriods(returns) ==
    LET below == {i \in 1 .. Len(returns) : RLess(returns[i], mar_period)}
    IN  IF below = {} THEN Zero
        ELSE RMul(SumSqDownside(returns), Rat(1, Cardinality(below)))

\* mean_sq = np.mean(downside ** 2)
MeanSq(returns) == RMul(SumSqDownside(returns), Rat(1, Len(returns)))

\* downside_dev = math.sqrt(mean_sq) * math.sqrt(self.p.periods_per_year)
DownsideDev(returns) == SqrtTimesSqrt(MeanSq(returns), periods_per_year)

\* Mutant of the ratio: without downside deviation it is +infinity for a
\* numerator >= 0.
SortinoInfOnZero(annual_return, downside_dev) ==
    LET rf_annual == Rat(riskfreerate, 1)
    IN  IF Positive(downside_dev)
        THEN Quotient(Minus(annual_return, rf_annual), downside_dev)
        ELSE IF (IF annual_return.k = "rat"
                 THEN ~RLess(annual_return.q, rf_annual)
                 ELSE ~RLess(annual_return.base, One))
             THEN Inf ELSE None

\* sortino of stop (lines 81, 89-95)
Sortino(annual_return, downside_dev) ==
    LET rf_annual == Rat(riskfreerate, 1)
    IN  IF Positive(downside_dev)
        THEN Quotient(Minus(annual_return, rf_annual), downside_dev)
        ELSE IF Exceeds(annual_return, rf_annual) THEN Inf ELSE None

\* Mutant of n_periods: the samples are counted, not the returns.
NPeriodsCountsSamples(a) == IF a.prev_val.none THEN 0 ELSE Len(a.equity) + 1

\* 'n_periods': len(self.equity)
NPeriods(a) == Len(a.equity)

\* SortinoRatio.stop: the value of self.rets
AnalyzerStopBody(a) ==
    IF a.equity = <<>>
    THEN [sortino |-> None, annual_return |-> None, downside_deviation |-> None,
          n_periods |-> NPeriods(a)]
    ELSE LET returns == a.equity
             annual_return == AnnualReturn(returns)
             downside_dev == DownsideDev(returns)
         IN  [sortino |-> Sortino(annual_return, downside_dev),
              annual_return |-> annual_return,
              downside_deviation |-> downside_dev,
              n_periods |-> Len(returns)]

engine_vars == <<profile, dlen, bar, fresh, cash, position, pending, notifications, skipped,
                 crashed, date_raises, phase, steplog>>

\* The engine calls the analyzer's next with the value of the portfolio.
AnalyzerNext ==
    /\ astatus = "run" /\ Len(values) < MaxSamples
    /\ \E cur \in Values :
         LET a == AnalyzerNextBody(AnalyzerState, cur) IN
            /\ equity' = a.equity
            /\ prev_val' = a.prev_val
            /\ astatus' = IF a.raised THEN "raised" ELSE "run"
            /\ values' = Append(values, cur)
    /\ UNCHANGED rets
    /\ UNCHANGED engine_vars
    /\ UNCHANGED strategy_vars

\* The run ends: the engine calls stop, and get_analysis returns self.rets.
AnalyzerStop ==
    /\ astatus = "run"
    /\ rets' = AnalyzerStopBody(AnalyzerState)
    /\ astatus' = "stopped"
    /\ UNCHANGED <<equity, prev_val, values>>
    /\ UNCHANGED engine_vars
    /\ UNCHANGED strategy_vars

StepSortino ==
    \/ AnalyzerNext
    \/ AnalyzerStop

SpecSortino == Init /\ [][StepSortino]_vars

(***************************************************************************)
(* Vocabulary of the properties.                                           *)
(***************************************************************************)
\* The controller state of the specification: LONG from the submission of a
\* buy intent until a close intent is issued, FLAT otherwise.
LONG(d) == last_intent[d] = "buy"
FLAT(d) == last_intent[d] # "buy"

\* A hook has returned normally and the engine has not moved on yet.
AfterHook == phase = "feed" /\ hook # "none" /\ ~crashed

IntentIdx == 1 .. Len(intents)
EvalIdx == 1 .. Len(evals)

\* The readiness policy as the specification states it.
IsNumber(x) == x.k = "num"
ReadyPolicy(d) ==
    /\ dlen[d] >= Max(fast_ma, slow_ma)
    /\ IsNumber(bar[d].close) /\ bar[d].close.v > 0
    /\ IsNumber(bar[d].fast_sma) /\ IsNumber(bar[d].slow_sma) /\ IsNumber(bar[d].crossover)

\* The instruments that are Ready now.
TradeableSet == {d \in Datas : ReadyPolicy(d)}

(***************************************************************************)
(* C1.  Once a buy intent has been issued for an instrument (it is LONG    *)
(* from the submission on), no further buy intent is issued for it until a *)
(* close intent has been issued, also on steps where the instrument        *)
(* delivered no bar and its buy order is still unfilled.                   *)
(***************************************************************************)
C1_NoSecondBuyWhileLong ==
    \A i \in IntentIdx : intents[i].kind = "buy" => intents[i].before # "buy"

(***************************************************************************)
(* C2.  Every instrument's position size is >= 0 in every reachable state: *)
(* no sequence of steps and fills leaves an instrument short.              *)
(***************************************************************************)
C2_PositionNeverShort == \A d \in Datas : position[d] >= 0

(***************************************************************************)
(* C3.  As claimed: whenever an instrument is FLAT (initially, or after a  *)
(* close intent moved it to FLAT optimistically) its position size is 0.   *)
(***************************************************************************)
C3_FlatHoldsNothing == \A d \in Datas : FLAT(d) => position[d] = 0

(***************************************************************************)
(* C3, amended.  An instrument for which no intent was issued yet holds no *)
(* position, and every buy intent (the controller acting on FLAT) is       *)
(* issued at a step where the broker's position size of the instrument is  *)
(* 0.  After a close intent the position stays open until the close fills. *)
(***************************************************************************)
C3_BuyOnlyWithoutPosition ==
    /\ \A d \in Datas : last_intent[d] = "none" => position[d] = 0
    /\ \A i \in IntentIdx : intents[i].kind = "buy" => intents[i].pos = 0

\* A buy intent for an instrument that had been closed before.
C3_Witness ==
    \E i \in IntentIdx :
        intents[i].kind = "buy" /\ intents[i].before = "close" /\ intents[i].pos = 0

(***************************************************************************)
(* C4.  No buy or close intent is issued for an instrument at a step where *)
(* _data_ready is false for it.                                            *)
(***************************************************************************)
C4_NoIntentUnlessReady == \A i \in IntentIdx : intents[i].ready

\* A hook evaluated a live feed with enough history and a positive crossover
\* whose close is invalid, and issued nothing for it, while it issued an
\* intent for a ready sibling.
C4_Witness ==
    /\ AfterHook
    /\ \E d \in d_with_len :
        /\ ~readyseen[d] /\ dlen[d] >= min_periods(d)
        /\ bar[d].crossover = Num(1) /\ position[d] = 0
        /\ \A i \in IntentIdx : intents[i].d # d
    /\ intents # <<>>

(***************************************************************************)
(* C5.  _data_ready(d) is true iff the history is at least max(fast_ma,    *)
(* slow_ma) long, the close is a number > 0 and fast, slow and crossover   *)
(* are numbers; in every other case it returns false and raises nothing.   *)
(***************************************************************************)
C5_DataReadyIffPolicy ==
    /\ \A d \in Datas : DataReady(d) <=> ReadyPolicy(d)
    /\ AfterHook => \A d \in d_with_len : readyseen[d] <=> ReadyPolicy(d)
    /\ crashed => LogRaises

\* A hook found one feed ready and another, long enough, not ready because
\* reading its close raised.
C5_Witness ==
    /\ AfterHook
    /\ \E d1, d2 \in d_with_len :
        /\ readyseen[d1]
        /\ ~readyseen[d2] /\ dlen[d2] >= min_periods(d2) /\ bar[d2].close = Err

(***************************************************************************)
(* C6.  Readiness monotonicity: history lengths never decrease, and an     *)
(* instrument that was ready at the previous step and whose price and      *)
(* indicator values are valid at this step is ready at this step.          *)
(***************************************************************************)
ValidValues(d) ==
    /\ IsNumber(bar[d].close) /\ bar[d].close.v > 0
    /\ IsNumber(bar[d].fast_sma) /\ IsNumber(bar[d].slow_sma) /\ IsNumber(bar[d].crossover)

C6_ReadinessMonotone ==
    AfterHook => \A d \in Datas : (prevready[d] /\ ValidValues(d)) => readyseen[d]

\* Ready at two consecutive steps, the second with a longer history.
C6_Witness ==
    /\ AfterHook
    /\ \E d \in fresh : prevready[d] /\ readyseen[d] /\ dlen[d] > min_periods(d)

(***************************************************************************)
(* C7.  Whenever the allocation is recomputed, its value is the free cash  *)
(* divided by max(1, |TradeableSet|), TradeableSet being the instruments   *)
(* that are Ready at that step.                                            *)
(***************************************************************************)
C7_AllocationOverTradeableSet ==
    (phase = "feed" /\ recomputed) =>
        /\ ~capital.none
        /\ capital.num * Max(1, Cardinality(TradeableSet)) = cash * capital.den

(***************************************************************************)
(* C8.  The cached allocation is recomputed at a step iff the count        *)
(* observed at that step differs from the count the cache was last         *)
(* computed for.                                                           *)
(***************************************************************************)
C8_RecomputeIffCountDiffers ==
    (phase = "feed" /\ hook # "none") =>
        (recomputed <=> ActiveN(d_with_len) # prev_calc_len)

(***************************************************************************)
(* C9.  Where a buy intent is sized, _capital_per_active_ticker is defined *)
(* and _capital_calc_for_len is the active count of the current            *)
(* d_with_len.                                                             *)
(***************************************************************************)
C9_CacheNotStaleAtSizing ==
    \A i \in IntentIdx :
        intents[i].kind = "buy" =>
            ~intents[i].capital.none /\ intents[i].calc_for_len = intents[i].active_n

\* A buy sized by next from a cache computed at an earlier step.
C9_Witness ==
    /\ AfterHook /\ hook = "next" /\ ~recomputed
    /\ \E i \in IntentIdx : intents[i].kind = "buy"

(***************************************************************************)
(* C10.  Within one call of next every evaluated instrument reads the same *)
(* cached allocation: an intent issued for one instrument changes neither  *)
(* _capital_per_active_ticker nor _capital_calc_for_len.                   *)
(***************************************************************************)
C10_CacheStableWithinStep ==
    (phase = "feed" /\ hook # "none") =>
        \A i \in EvalIdx :
            /\ evals[i].capital = capital
            /\ evals[i].calc_for_len = calc_for_len

\* Two instruments were evaluated in one step and the first got an intent.
C10_Witness ==
    /\ AfterHook /\ Len(evals) = 2
    /\ \E i \in IntentIdx : intents[i].d = evals[1].d

(***************************************************************************)
(* Vocabulary of the claims about one step of the trading logic.           *)
(***************************************************************************)
\* The engine calls prenext, nextstart or next in this step.
HookStep == phase = "notify" /\ phase' = "feed"

\* The intents the last hook issued for d.
IntentsFor(d) == {i \in IntentIdx : intents[i].d = d}

\* floor((allocation * alloc_percent_per_ticker) / close) for allocation c.
FloorSize(c, close) ==
    (c.num * alloc_percent_num) \div (c.den * alloc_percent_den * close)

(***************************************************************************)
(* C11.  On a step where a hook evaluates a ready instrument that holds no *)
(* position and whose crossover is > 0, the buy size is                    *)
(* floor((cached allocation * alloc_percent_per_ticker) / close); a buy of *)
(* exactly that size is handed to the broker iff size >= min_size,         *)
(* otherwise nothing is issued and the instrument's orders, position and   *)
(* controller state are unchanged.                                         *)
(***************************************************************************)
C11_BuySizeIsFloorOfAllocation ==
    [][HookStep =>
        \A d \in Datas :
            (readyseen'[d] /\ position[d] = 0 /\ bar[d].crossover.v > 0) =>
                LET size == FloorSize(capital', bar[d].close.v) IN
                IF size >= min_size
                THEN /\ pending'[d] = Append(pending[d], [isbuy |-> TRUE, size |-> size])
                     /\ last_intent'[d] = "buy"
                     /\ \E i \in 1 .. Len(intents') :
                            /\ intents'[i].d = d /\ intents'[i].kind = "buy"
                            /\ intents'[i].size = size
                ELSE /\ pending'[d] = pending[d]
                     /\ last_intent'[d] = last_intent[d]
                     /\ position'[d] = position[d]
                     /\ \A i \in 1 .. Len(intents') : intents'[i].d # d]_vars

\* One hook bought an instrument with a size the floor rounded down, and
\* skipped another one whose size came out below min_size.
C11_Witness ==
    /\ AfterHook
    /\ \E i \in IntentIdx :
        /\ intents[i].kind = "buy"
        /\ intents[i].size * capital.den * alloc_percent_den * bar[intents[i].d].close.v
               < capital.num * alloc_percent_num
    /\ \E d \in Datas :
        /\ readyseen[d] /\ position[d] = 0 /\ bar[d].crossover.v > 0
        /\ FloorSize(capital, bar[d].close.v) < min_size
        /\ IntentsFor(d) = {}

(***************************************************************************)
(* C12.  On a step where a hook evaluates a ready instrument that holds a  *)
(* position and whose crossover is < 0, exactly one close intent is issued *)
(* for it, for the full current position and against it, whatever the      *)
(* close price; no size is computed and the instrument counts as FLAT      *)
(* afterwards.                                                             *)
(***************************************************************************)
C12_CloseWholePosition ==
    [][HookStep =>
        \A d \in Datas :
            (readyseen'[d] /\ position[d] # 0 /\ bar[d].crossover.v < 0) =>
                /\ pending'[d] = Append(pending[d], [isbuy |-> position[d] < 0,
                                                     size |-> Abs(position[d])])
                /\ \E i \in 1 .. Len(intents') :
                        /\ intents'[i].d = d /\ intents'[i].kind = "close"
                        /\ intents'[i].size = Abs(position[d])
                        /\ \A j \in 1 .. Len(intents') : intents'[j].d = d => j = i
                /\ last_intent'[d] # "buy"
                /\ position'[d] = position[d]]_vars

\* A long position was closed at a close price that is neither the price it
\* was sized at nor a divisor of the allocation.
C12_Witness ==
    /\ AfterHook
    /\ \E i \in IntentIdx :
        /\ intents[i].kind = "close" /\ intents[i].pos > 0
        /\ intents[i].size = position[intents[i].d]
        /\ bar[intents[i].d].close.v = 2
        /\ FloorSize(capital, 2) # intents[i].size
        /\ FLAT(intents[i].d)

(***************************************************************************)
(* C13.  In one step an instrument receives at most one intent, and none   *)
(* when its crossover is > 0 while it holds a position, < 0 while it holds *)
(* none, or = 0 in either case.                                            *)
(***************************************************************************)
C13_AtMostOneIntentPerStep ==
    (phase = "feed" /\ hook # "none") =>
        \A d \in Datas :
            /\ Cardinality(IntentsFor(d)) <= 1
            /\ (/\ readyseen[d]
                /\ \/ bar[d].crossover.v = 0
                   \/ bar[d].crossover.v > 0 /\ position[d] # 0
                   \/ bar[d].crossover.v < 0 /\ position[d] = 0)
               => IntentsFor(d) = {}

\* One hook evaluated an instrument that holds a position and crosses up, and
\* another one that holds none and does not cross, and issued nothing.
C13_Witness ==
    /\ AfterHook /\ intents = <<>>
    /\ \E d1, d2 \in Datas :
        /\ readyseen[d1] /\ position[d1] > 0 /\ bar[d1].crossover.v > 0
        /\ readyseen[d2] /\ position[d2] = 0 /\ bar[d2].crossover.v = 0

(***************************************************************************)
(* C14.  A failure while one instrument is handled in a step, an error     *)
(* raised while writing a log line included (as when the first feed has no *)
(* bar yet), is caught inside the step: prenext, nextstart and next never  *)
(* propagate an exception that aborts the run.                             *)
(***************************************************************************)
C14_HookNeverAborts == ~(crashed /\ phase = "feed" /\ hook # "none")

(***************************************************************************)
(* C15.  The Sortino analyzer never raises, whatever the sequence of       *)
(* portfolio values is (one with a value of 0 followed by further samples  *)
(* included): next and stop complete and get_analysis returns a result.    *)
(***************************************************************************)
C15_AnalyzerNeverRaises == astatus # "raised"

(***************************************************************************)
(* Vocabulary of the claims about the analyzer.                            *)
(***************************************************************************)
\* stop has run: rets is what get_analysis returns.
Stopped == astatus = "stopped"

\* The number of portfolio values the analyzer was given.
Samples == Len(values)

IsNone(x) == x.k = "none"

(***************************************************************************)
(* C16.  With fewer than 2 equity samples (no analyzer step, or one), the  *)
(* result has sortino, annual_return and downside_deviation all None and   *)
(* nothing raises; with a single sample n_periods is 0.                    *)
(***************************************************************************)
C16_UndefinedBelowTwoSamples ==
    /\ Samples < 2 => astatus # "raised"
    /\ (Stopped /\ Samples < 2) =>
        /\ IsNone(rets.sortino)
        /\ IsNone(rets.annual_return)
        /\ IsNone(rets.downside_deviation)
        /\ Samples = 1 => rets.n_periods = 0

\* The analysis of a run with one analyzer step.
C16_Witness == Stopped /\ Samples = 1 /\ IsNone(rets.sortino)

(***************************************************************************)
(* C17.  As claimed: with fewer than 2 equity samples the sample count     *)
(* reported equals the number of equity samples given, 0 for the empty     *)
(* sequence and 1 for a single sample.                                     *)
(***************************************************************************)
C17_CountEqualsSamples == (Stopped /\ Samples < 2) => rets.n_periods = Samples

(***************************************************************************)
(* C17, amended.  With fewer than 2 equity samples the count reported is   *)
(* the number of returns computed, which is 0 for the empty sequence and   *)
(* also 0 for a single sample: one less than the samples given.            *)
(***************************************************************************)
C17_CountEqualsReturns ==
    (Stopped /\ Samples < 2) =>
        /\ rets.n_periods = Len(equity)
        /\ rets.n_periods = Max(0, Samples - 1)

\* One value was sampled and kept as prev_val; no return was computed.
C17_Witness ==
    Stopped /\ Samples = 1 /\ ~prev_val.none /\ equity = <<>> /\ rets.n_periods = 0

(***************************************************************************)
(* C18.  If the downside deviation is > 0 the ratio is                     *)
(* (annual_return - riskfreerate) / downside_deviation; if it is 0 the     *)
(* ratio is +infinity when annual_return - riskfreerate > 0 and None       *)
(* otherwise, and in both of these cases annual_return and                 *)
(* downside_deviation are still reported as numbers.                       *)
(***************************************************************************)
C18_RatioCases ==
    (Stopped /\ equity # <<>>) =>
        LET ar == rets.annual_return
            dd == rets.downside_deviation
        IN  /\ ar.k \in {"rat", "powm1"} /\ dd.k = "sqrtmul"
            /\ IF Positive(dd)
               THEN rets.sortino = Quotient(Minus(ar, Rat(riskfreerate, 1)), dd)
               ELSE IF Exceeds(ar, Rat(riskfreerate, 1))
                    THEN rets.sortino.k = "inf"
                    ELSE rets.sortino.k = "none"

\* No return is negative and the growth exceeds 1: the ratio is +infinity.
C18_Witness ==
    /\ Stopped /\ equity # <<>>
    /\ \A i \in 1 .. Len(equity) : ~RLess(equity[i], Zero)
    /\ RLess(One, TotalGrowth(equity))
    /\ rets.sortino.k = "inf"

(***************************************************************************)
(* C19.  When the total growth G, the product of the 1 + r_i, is not       *)
(* positive, annual_return is exactly -1 and no power is taken; when G > 0 *)
(* it is G ^ (periods_per_year / n) - 1, n being the number of returns.    *)
(***************************************************************************)
C19_TotalLossFloor ==
    (Stopped /\ equity # <<>>) =>
        LET G == TotalGrowth(equity) IN
        IF RLess(Zero, G)
        THEN rets.annual_return = PowMinusOne(G, periods_per_year, Len(equity))
        ELSE rets.annual_return.k = "rat" /\ rets.annual_return.q = Rat(-1, 1)

\* A run whose total growth is negative.
C19_Witness ==
    /\ Stopped /\ equity # <<>>
    /\ RLess(TotalGrowth(equity), Zero)
    /\ rets.annual_return.k = "rat"

(***************************************************************************)
(* C20.  The downside variance is the sum of min(0, r_i - mar_period)^2    *)
(* divided by the number n of all periods, not by the number of periods    *)
(* below the MAR, and the downside deviation is                            *)
(* sqrt(variance * periods_per_year).                                      *)
(***************************************************************************)
RECURSIVE SumSqBelow(_)
SumSqBelow(i) ==
    IF i = 0 THEN Zero
    ELSE LET dev == RSub(equity[i], mar_period)
             sq == IF RLess(dev, Zero) THEN RMul(dev, dev) ELSE Zero
         IN  RAdd(sq, SumSqBelow(i - 1))

DownsideVariance == RMul(SumSqBelow(Len(equity)), Rat(1, Len(equity)))

\* sqrt(a) * sqrt(b) = sqrt(c) for a, b, c >= 0 iff a * b = c.
C20_DownsideOverAllPeriods ==
    (Stopped /\ equity # <<>>) =>
        LET dd == rets.downside_deviation IN
        /\ dd.k = "sqrtmul"
        /\ RMul(dd.a, Rat(dd.b, 1)) = RMul(DownsideVariance, Rat(periods_per_year, 1))

\* A run with a return below the MAR and one that is not.
C20_Witness ==
    /\ Stopped
    /\ \E i, j \in 1 .. Len(equity) :
        RLess(equity[i], mar_period) /\ ~RLess(equity[j], mar_period)
    /\ Positive(rets.downside_deviation)

(***************************************************************************)
(* C21.  If the cached allocation is <= 0 (the free cash was <= 0 when it  *)
(* was computed), a positive crossover on a ready instrument without       *)
(* position issues no buy intent at any positive close and raises nothing: *)
(* the signal is skipped.                                                  *)
(***************************************************************************)
Logged(tag, d) == \E i \in 1 .. Len(steplog) : steplog[i] = [tag |-> tag, d |-> d]

C21_NoTradeWithoutCash ==
    (phase = "feed" /\ hook # "none" /\ ~capital.none /\ capital.num <= 0) =>
        /\ \A i \in IntentIdx : intents[i].kind # "buy"
        /\ \A d \in Datas :
            (readyseen[d] /\ position[d] = 0 /\ bar[d].crossover.v > 0) =>
                /\ ~crashed
                /\ Logged("BUY SKIP", d)
                /\ ~Logged("ERROR BUY", d)

\* A run in debt: two instruments cross up at different closes and both are
\* skipped.
C21_Witness ==
    /\ AfterHook /\ ~capital.none /\ capital.num < 0
    /\ \E d1, d2 \in Datas :
        /\ bar[d1].close.v = 1 /\ bar[d2].close.v = 2
        /\ \A d \in {d1, d2} :
            /\ readyseen[d] /\ position[d] = 0 /\ bar[d].crossover.v > 0
            /\ Logged("BUY SKIP", d)

(***************************************************************************)
(* C22.  As claimed: once an instrument has been Ready at a step it is     *)
(* Ready at every later step, even if its feed then produces an invalid    *)
(* close or an undefined indicator value.                                  *)
(***************************************************************************)
C22_ReadyOnceReadyForever ==
    AfterHook => \A d \in Datas : prevready[d] => readyseen[d]

(***************************************************************************)
(* C22, amended.  Readiness is evaluated again at every step from the      *)
(* current values: an instrument that was Ready at the previous step is    *)
(* Ready at this step iff its close is a number > 0 and its indicator      *)
(* values are numbers now; an invalid close or an undefined indicator      *)
(* value makes it not Ready for that step.                                 *)
(***************************************************************************)
C22_ReadinessReevaluated ==
    AfterHook => \A d \in Datas : prevready[d] => (readyseen[d] <=> ValidValues(d))

\* An instrument that was Ready delivered a bar with an invalid close and is
\* not Ready, and no intent is issued for it.
C22_Witness ==
    /\ AfterHook
    /\ \E d \in fresh :
        /\ prevready[d] /\ ~readyseen[d]
        /\ bar[d].close \in {None, NaN, Num(0), Num(-1)}
        /\ IntentsFor(d) = {}

(***************************************************************************)
(* C23.  After a positive crossover of an instrument was skipped because   *)
(* size < min_size, no buy intent is issued for that instrument until it   *)
(* delivers a new bar: the same crossover occurrence is not acted on at a  *)
(* later global step, also when the allocation was recomputed meanwhile.   *)
(***************************************************************************)
C23_SkippedBuyNotRetried ==
    [][HookStep =>
        \A d \in Datas :
            skipped[d] =>
                \A i \in 1 .. Len(intents') :
                    ~(intents'[i].d = d /\ intents'[i].kind = "buy")]_vars

(***************************************************************************)
(* C24.  All buy intents issued within one step are sized from the same    *)
(* allocation, the one the step had before its first intent; the value     *)
(* they request together (sum of size * close) can exceed the free cash of *)
(* that step.                                                              *)
(***************************************************************************)
\* The value requested by the buy intents i .. Len(intents) of the last hook.
RECURSIVE RequestedFrom(_)
RequestedFrom(i) ==
    IF i > Len(intents) THEN 0
    ELSE (IF intents[i].kind = "buy"
          THEN intents[i].size * bar[intents[i].d].close.v ELSE 0) + RequestedFrom(i + 1)

C24_OneAllocationPerStep ==
    (phase = "feed" /\ hook # "none") =>
        \A i \in IntentIdx :
            intents[i].kind = "buy" =>
                /\ evals # <<>> /\ intents[i].capital = evals[1].capital
                /\ intents[i].size = FloorSize(evals[1].capital, bar[intents[i].d].close.v)

\* Two instruments are bought in one step, from one allocation, for more than
\* the free cash.
C24_Witness ==
    /\ AfterHook
    /\ \E i, j \in IntentIdx :
        /\ i # j /\ intents[i].kind = "buy" /\ intents[j].kind = "buy"
        /\ intents[i].capital = intents[j].capital
    /\ RequestedFrom(1) > cash

(***************************************************************************)
(* C25.  The analyzer's return sequence is append-only and built from      *)
(* consecutive samples: after k >= 1 analyzer steps (calls of next that    *)
(* returned) it holds exactly k - 1 returns, the i-th being                *)
(* value_(i+1) / value_i - 1; recorded entries are never modified or       *)
(* removed, and n_periods reported by stop is its length.                  *)
(***************************************************************************)
C25_ReturnsAppendOnly ==
    [][astatus' # "raised" =>
       /\ Len(equity') >= Len(equity)
       /\ \A i \in 1 .. Len(equity) : equity'[i] = equity[i]
       /\ Len(values') >= 1 => Len(equity') = Len(values') - 1
       /\ \A i \in 1 .. Len(equity') :
            /\ values'[i] # 0
            /\ equity'[i] = RSub(Rat(values'[i + 1], values'[i]), One)
       /\ astatus' = "stopped" => rets'.n_periods = Len(equity')]_vars

\* Three returns of different values were collected and reported.
C25_Witness ==
    /\ Stopped /\ Len(equity) = 3 /\ rets.n_periods = 3
    /\ equity[1] # equity[2] /\ equity[2] # equity[3] /\ equity[1] # equity[3]

(***************************************************************************)
(* C26.  With log_on_connect enabled the "[ADD]" notice is emitted for an  *)
(* instrument at most once per run, at the first step where it is Ready    *)
(* and before any intent for it; live_logged only grows and an instrument  *)
(* in it is never logged again.                                            *)
(***************************************************************************)
AddLines(lg, d) == {i \in 1 .. Len(lg) : lg[i] = [tag |-> "ADD", d |-> d]}
TradeLines(lg, d) ==
    {i \in 1 .. Len(lg) : lg[i].d = d /\ lg[i].tag \in {"BUY", "BUY SKIP", "SELL"}}

C26_ConnectNoticeOnce ==
    [][/\ live_logged \subseteq live_logged'
       /\ HookStep =>
            \A d \in Datas :
                /\ readyseen'[d] => d \in live_logged'
                /\ AddLines(steplog', d) # {} <=> (readyseen'[d] /\ d \notin live_logged)
                /\ Cardinality(AddLines(steplog', d)) <= 1
                /\ \A i \in AddLines(steplog', d) :
                        \A j \in TradeLines(steplog', d) : i < j]_vars

\* One instrument is connected and bought in this step; another one, connected
\* at an earlier step, gets an intent without a second notice.
C26_Witness ==
    /\ AfterHook /\ log_on_connect
    /\ \E d1, d2 \in live_logged :
        /\ AddLines(steplog, d1) # {} /\ IntentsFor(d1) # {}
        /\ AddLines(steplog, d2) = {} /\ IntentsFor(d2) # {}

(***************************************************************************)
(* C27.  notify_order, notify_trade and notify_timer only append log       *)
(* lines: they leave d_with_len, live_logged, the allocation cache and all *)
(* positions unchanged and issue no intent.                                *)
(***************************************************************************)
\* The engine hands a notification to the strategy in this step.
NotifyStep == phase = "notify" /\ phase' = "notify"

C27_NotificationsOnlyLog ==
    [][NotifyStep =>
        /\ UNCHANGED <<d_with_len, live_logged, capital, calc_for_len, position, cash>>
        /\ UNCHANGED <<pending, intents, last_intent>>
        /\ Len(steplog') >= Len(steplog)
        /\ \A i \in 1 .. Len(steplog) : steplog'[i] = steplog[i]]_vars

\* A step in which the timer, the rejection of a buy and a fill were logged,
\* with the cache defined and a position open.
C27_Witness ==
    /\ phase = "notify" /\ notifications = <<>> /\ ~crashed
    /\ \E i, j, k \in 1 .. Len(steplog) :
        /\ steplog[i].tag = "TIMER"
        /\ steplog[j].tag = "Order Canceled/Margin/Rejected"
        /\ steplog[k].tag \in {"BUY EXECUTED", "SELL EXECUTED"}
    /\ ~capital.none
    /\ \E d \in Datas : position[d] # 0

(***************************************************************************)
(* C28.  nextstart computes the allocation from the cash it observes, over *)
(* all feeds; after it has run the set of live feeds never changes again   *)
(* and the cache is never recomputed: every later buy is sized from that   *)
(* allocation, whatever fills have changed the free cash since.            *)
(***************************************************************************)
C28_NoRecomputeAfterNextStart ==
    [][HookStep =>
        /\ (~started /\ started') =>
                /\ d_with_len' = Datas
                /\ capital' = [none |-> FALSE, num |-> cash, den |-> Cardinality(Datas)]
        /\ started =>
                /\ d_with_len = Datas /\ d_with_len' = d_with_len
                /\ ~recomputed'
                /\ capital' = capital /\ calc_for_len' = calc_for_len
                /\ \A i \in 1 .. Len(intents') :
                        intents'[i].kind = "buy" =>
                            intents'[i].size = FloorSize(capital, bar[intents'[i].d].close.v)]_vars

\* A buy issued by next when fills have changed the cash since nextstart.
C28_Witness ==
    /\ AfterHook /\ hook = "next" /\ started
    /\ capital.num # cash
    /\ \E i \in IntentIdx : intents[i].kind = "buy" /\ intents[i].capital = capital

(***************************************************************************)
(* C29.  At every global step the hook evaluates every feed that has at    *)
(* least one bar, whether or not the feed delivered a new bar at this      *)
(* step: a feed without a new bar is evaluated with its last close,        *)
(* crossover and position, so the same crossover value can be acted on at  *)
(* more than one global step.                                              *)
(***************************************************************************)
C29_StaleFeedsEvaluated ==
    AfterHook =>
        /\ d_with_len = LiveDatas
        /\ \A d \in LiveDatas :
            /\ readyseen[d] <=> DataReady(d)
            /\ (/\ readyseen[d] /\ position[d] = 0 /\ bar[d].crossover.v > 0
                /\ FloorSize(capital, bar[d].close.v) >= min_size)
               => \E i \in IntentsFor(d) : intents[i].kind = "buy"
            /\ (readyseen[d] /\ position[d] # 0 /\ bar[d].crossover.v < 0)
               => \E i \in IntentsFor(d) : intents[i].kind = "close"

\* A feed without a new bar gets a second buy intent on the crossover it was
\* bought on before.
C29_Witness ==
    /\ AfterHook
    /\ \E i \in IntentIdx :
        /\ intents[i].d \notin fresh
        /\ intents[i].kind = "buy" /\ intents[i].before = "buy"
        /\ bar[intents[i].d].crossover.v > 0

(***************************************************************************)
(* C30.  A rejected buy does not wedge the instrument: the rejection       *)
(* (Canceled/Margin/Rejected) changes no state of the strategy, the        *)
(* instrument is treated as flat because its position size is 0, and the   *)
(* next ready step with crossover > 0 and sufficient size issues a new buy *)
(* intent.                                                                 *)
(***************************************************************************)
RejectedTag == "Order Canceled/Margin/Rejected"

C30_RejectedBuyDoesNotWedge ==
    [][/\ (NotifyStep /\ Head(notifications).status = "Margin") =>
            /\ UNCHANGED <<d_with_len, live_logged, capital, calc_for_len, started>>
            /\ UNCHANGED <<position, pending, last_intent>>
       /\ HookStep =>
            \A d \in Datas :
                (/\ Logged(RejectedTag, d) /\ position[d] = 0
                 /\ readyseen'[d] /\ bar[d].crossover.v > 0
                 /\ FloorSize(capital', bar[d].close.v) >= min_size)
                => \E i \in 1 .. Len(intents') :
                        /\ intents'[i].d = d /\ intents'[i].kind = "buy"
                        /\ intents'[i].size = FloorSize(capital', bar[d].close.v)]_vars

\* The buy of an instrument was rejected in this step and the hook issued a
\* new buy for it.
C30_Witness ==
    /\ AfterHook
    /\ \E i \in IntentIdx :
        /\ Logged(RejectedTag, intents[i].d)
        /\ intents[i].kind = "buy" /\ intents[i].before = "buy" /\ intents[i].pos = 0

====
